---- MODULE Spec2Model ----
(***************************************************************************)
(* Model of the retrieval / indexing engine of kkbp-backend:               *)
(*   services/embeddingService.js   (EmbeddingService)                     *)
(*   controllers/chatbotController.js (searchWithRAG, indexArticle,        *)
(*                                     indexAllArticles)                   *)
(*   the article controllers that change Article.status                    *)
(*   models/Article.js, models/ArticleEmbedding.js                         *)
(*                                                                         *)
(* Representation.                                                         *)
(*  - A text is a sequence of tokens.  A token is a lower-cased word, or   *)
(*    one of the whitespace tokens WS (" ") and NL ("\n\n").               *)
(*  - A JavaScript number is a record [nan, v]: NaN, or the fixed-point    *)
(*    integer v = round-down(value * Scale).                               *)
(*  - A vector is sparse: [dim |-> length, val |-> function from the       *)
(*    indices of the non-zero components to their fixed-point values].     *)
(*  - 32-bit hash arithmetic is done on two 16-bit limbs.                  *)
(***************************************************************************)
EXTENDS Integers, Sequences, FiniteSets, TLC

(***************************************************************************)
(* State                                                                   *)
(***************************************************************************)
VARIABLES
  config,    \* the environment the process was started with
  articles,  \* the Article collection: id -> document
  store,     \* the ArticleEmbedding collection, in insertion order
  procs,     \* the index requests in flight (stepwise handlers)
  resp       \* the response sent last

vars == <<config, articles, store, procs, resp>>

(***************************************************************************)
(* Numbers                                                                 *)
(***************************************************************************)
Scale == 1000

Num(x) == [nan |-> FALSE, v |-> x]
NaN == [nan |-> TRUE, v |-> 0]

\* a < b on JavaScript numbers: every comparison with NaN is false
NumLt(a, b) == ~a.nan /\ ~b.nan /\ a.v < b.v

\* a * (c / Scale)
NumMulConst(a, c) == IF a.nan THEN NaN ELSE Num((a.v * c) \div Scale)

NumAdd(a, b) == IF a.nan \/ b.nan THEN NaN ELSE Num(a.v + b.v)

\* a / b, for a >= 0 and b >= 0 given as fixed-point integers: 0/0 is NaN.
\* (x/0 with x > 0 is Infinity in JavaScript; no caller produces it, a zero
\* norm forces a zero dot product.)
NumDiv(a, b) == IF b = 0 THEN NaN ELSE Num((a * Scale) \div b)

RECURSIVE SqrtIter(_, _, _)
SqrtIter(n, lo, hi) ==
  IF lo >= hi THEN lo
  ELSE LET mid == (lo + hi + 1) \div 2
       IN IF mid * mid <= n THEN SqrtIter(n, mid, hi) ELSE SqrtIter(n, lo, mid - 1)

\* Math.sqrt on a value scaled by Scale*Scale, result scaled by Scale
Sqrt(n) == SqrtIter(n, 0, 46340)

\* Math.log(1 + freq), scaled
Log1p(freq) ==
  CASE freq = 1 -> 693
    [] freq = 2 -> 1098
    [] freq = 3 -> 1386
    [] freq = 4 -> 1609
    [] freq = 899 -> 6802
    [] freq = 900 -> 6803
    [] OTHER -> 1791

(***************************************************************************)
(* Texts                                                                   *)
(***************************************************************************)
WS == " "
NL == "\n\n"
Whitespace == {WS, NL}

\* charCodeAt of every character of a word of the vocabulary
Chars(w) ==
  CASE w = "mongodb"    -> <<109, 111, 110, 103, 111, 100, 98>>
    [] w = "connection" -> <<99, 111, 110, 110, 101, 99, 116, 105, 111, 110>>
    [] w = "refused"    -> <<114, 101, 102, 117, 115, 101, 100>>
    [] w = "error"      -> <<101, 114, 114, 111, 114>>
    [] w = "database"   -> <<100, 97, 116, 97, 98, 97, 115, 101>>
    [] w = "db"         -> <<100, 98>>
    [] w = "the"        -> <<116, 104, 101>>
    [] w = "is"         -> <<105, 115>>
    [] w = "it"         -> <<105, 116>>
    [] w = "_alt"       -> <<95, 97, 108, 116>>
    [] w = "_alt2"      -> <<95, 97, 108, 116, 50>>
    [] w = "_"          -> <<95>>
    [] w = "xfjfxtf"    -> <<120, 102, 106, 102, 120, 116, 102>>
    [] OTHER            -> <<>>

\* !text || text.trim().length === 0
IsBlank(text) == \A i \in 1..Len(text) : text[i] \in Whitespace

SelectTokens(text) == SelectSeq(text, LAMBDA t : t \notin Whitespace)

\* the characters of a text: two adjacent words are separated by one space,
\* written out here as a token of its own
RECURSIVE Spaced(_)
Spaced(text) ==
  IF Len(text) <= 1 THEN text
  ELSE LET half == Len(text) \div 2
           gap == IF text[half] \notin Whitespace /\ text[half + 1] \notin Whitespace
                  THEN <<WS>> ELSE <<>>
       IN Spaced(SubSeq(text, 1, half)) \o gap \o Spaced(SubSeq(text, half + 1, Len(text)))

RECURSIVE CharCount(_)
CharCount(spaced) ==
  IF spaced = <<>> THEN 0
  ELSE IF Len(spaced) = 1 THEN Len(spaced[1])
  ELSE LET half == Len(spaced) \div 2
       IN CharCount(SubSeq(spaced, 1, half)) + CharCount(SubSeq(spaced, half + 1, Len(spaced)))

\* text.length
Length(text) == CharCount(Spaced(text))

\* the first n characters of a spaced text; the cut can fall inside a token
RECURSIVE Prefix(_, _)
Prefix(spaced, n) ==
  IF spaced = <<>> \/ n <= 0 THEN <<>>
  ELSE IF Len(spaced) = 1
  THEN IF Len(spaced[1]) <= n THEN spaced ELSE <<SubSeq(spaced[1], 1, n)>>
  ELSE LET half == Len(spaced) \div 2
           left == SubSeq(spaced, 1, half)
       IN IF CharCount(left) >= n THEN Prefix(left, n)
          ELSE left \o Prefix(SubSeq(spaced, half + 1, Len(spaced)), n - CharCount(left))

\* text.substring(0, n)
Substring(text, n) == Prefix(Spaced(text), n)

\* a token of whitespace only: " ", "\n\n", or the "\n" a cut leaves
IsSpace(t) == t \in Whitespace \/ t = SubSeq(NL, 1, 1)

\* text.trim()
Trim(text) ==
  LET kept == {i \in 1..Len(text) : ~IsSpace(text[i])}
  IN IF kept = {} THEN <<>>
     ELSE SubSeq(text, CHOOSE i \in kept : \A k \in kept : i <= k,
                       CHOOSE i \in kept : \A k \in kept : i >= k)

\* the stopwords of generateLocalEmbedding that occur in the vocabulary
stopwords == {"the", "is", "it"}

\* the additional stopwords of extractKeywords
keywordStopwords == stopwords \cup {"error"}

\* expandAbbreviations, for the abbreviations of the vocabulary
Expansion(t) == IF t = "db" THEN <<"database">> ELSE <<t>>

RECURSIVE expandAbbreviations(_)
expandAbbreviations(text) ==
  IF text = <<>> THEN <<>>
  ELSE IF Len(text) = 1 THEN Expansion(text[1])
  ELSE LET half == Len(text) \div 2
       IN expandAbbreviations(SubSeq(text, 1, half))
            \o expandAbbreviations(SubSeq(text, half + 1, Len(text)))

(***************************************************************************)
(* hashString: hash = ((hash << 5) - hash) + char; hash = hash & hash      *)
(* The 32-bit value is kept as two 16-bit limbs [hi, lo].                  *)
(***************************************************************************)
Limb == 65536

HashStep(h, c) ==
  LET lo == h.lo * 31 + c
      hi == h.hi * 31 + (lo \div Limb)
  IN [hi |-> hi % Limb, lo |-> lo % Limb]

RECURSIVE HashLimbs(_, _)
HashLimbs(h, str) ==
  IF str = <<>> THEN h ELSE HashLimbs(HashStep(h, Head(str)), Tail(str))

\* the signed 32-bit integer of the limbs
ToInt32(h) == (IF h.hi >= Limb \div 2 THEN h.hi - Limb ELSE h.hi) * Limb + h.lo

hashString(str) == ToInt32(HashLimbs([hi |-> 0, lo |-> 0], str))

\* the variant without Math.abs: the remainder keeps the sign of h
RemainderSigned(h, d) == IF h >= 0 THEN h % d ELSE 0 - ((((-(h + 1)) % d) + 1) % d)

\* Math.abs(h) % d, computed without leaving the 32-bit range:
\* |h| = (-(h + 1)) + 1 for h < 0, and Math.abs(-2^31) = 2^31 in JavaScript
AbsMod(h, d) == IF h >= 0 THEN h % d ELSE (((-(h + 1)) % d) + 1) % d

(***************************************************************************)
(* Vectors                                                                 *)
(***************************************************************************)
vectorSize == 256

ZeroVector(d) == [dim |-> d, val |-> <<>>]

At(vec, i) == IF i \in DOMAIN vec.val THEN vec.val[i] ELSE 0

\* vector[i] += w
AddAt(vec, i, w) ==
  IF w = 0 THEN vec
  ELSE [vec EXCEPT !.val =
          [j \in (DOMAIN vec.val) \cup {i} |-> IF j = i THEN At(vec, i) + w ELSE vec.val[j]]]

RECURSIVE SumOver(_, _)
SumOver(S, f) ==
  IF S = {} THEN 0
  ELSE LET x == CHOOSE y \in S : TRUE IN f[x] + SumOver(S \ {x}, f)

RECURSIVE SumSquares(_, _)
SumSquares(S, f) ==
  IF S = {} THEN 0
  ELSE LET x == CHOOSE y \in S : TRUE IN f[x] * f[x] + SumSquares(S \ {x}, f)

(***************************************************************************)
(* generateLocalEmbedding                                                  *)
(***************************************************************************)
\* words: normalized tokens longer than 2 characters that are no stopwords
LocalWords(text) ==
  SelectSeq(SelectTokens(expandAbbreviations(text)),
            LAMBDA w : Len(Chars(w)) > 2 /\ w \notin stopwords)

\* features = [...words, ...bigrams], each feature as its character codes
LocalFeatures(text) ==
  LET words == LocalWords(text)
      n == Len(words)
  IN [i \in 1..n |-> Chars(words[i])]
       \o [i \in 1..(IF n > 0 THEN n - 1 ELSE 0) |->
             Chars(words[i]) \o Chars("_") \o Chars(words[i + 1])]

\* hash1, hash2, hash3 of a feature
FeatureHashes(word) ==
  <<hashString(word), hashString(word \o Chars("_alt")), hashString(word \o Chars("_alt2"))>>

\* idx1, idx2, idx3: Math.abs(hash) % this.vectorSize
HashPositions(word) ==
  [k \in 1..3 |-> AbsMod(FeatureHashes(word)[k], vectorSize)]

\* vector[idx1] += weight; vector[idx2] += weight * 0.5; vector[idx3] += weight * 0.25
AddFeature(vec, word, freq) ==
  LET idx == HashPositions(word)
      weight == Log1p(freq)
  IN AddAt(AddAt(AddAt(vec, idx[1], weight), idx[2], weight \div 2), idx[3], weight \div 4)

RECURSIVE Accumulate(_, _, _)
Accumulate(vec, distinct, features) ==
  IF distinct = {} THEN vec
  ELSE LET word == CHOOSE w \in distinct : TRUE
           freq == Cardinality({i \in 1..Len(features) : features[i] = word})
       IN Accumulate(AddFeature(vec, word, freq), distinct \ {word}, features)

\* L2 normalization, skipped when the magnitude is 0
Normalize(vec) ==
  LET magnitude == Sqrt(SumSquares(DOMAIN vec.val, vec.val))
  IN IF magnitude > 0
     THEN [vec EXCEPT !.val = [i \in DOMAIN vec.val |-> (vec.val[i] * Scale) \div magnitude]]
     ELSE vec

\* the mutant: the vector depends on what the store holds at the call
generateLocalEmbeddingStateful(text) ==
  LET features == LocalFeatures(text)
      distinct == {features[i] : i \in 1..Len(features)}
  IN IF store = <<>>
     THEN Normalize(Accumulate(ZeroVector(vectorSize), distinct, features))
     ELSE Accumulate(ZeroVector(vectorSize), distinct, features)

generateLocalEmbedding(text) ==
  LET features == LocalFeatures(text)
      distinct == {features[i] : i \in 1..Len(features)}
  IN Normalize(Accumulate(ZeroVector(vectorSize), distinct, features))

(***************************************************************************)
(* cosineSimilarity: [threw, value]                                        *)
(***************************************************************************)
\* the mutant: compares the common prefix of vectors of different lengths
cosineSimilarityTruncating(vecA, vecB) ==
  LET common == (DOMAIN vecA.val) \cap (DOMAIN vecB.val)
      dotProduct == SumOver(common, [i \in common |-> vecA.val[i] * vecB.val[i]])
      normA == SumSquares(DOMAIN vecA.val, vecA.val)
      normB == SumSquares(DOMAIN vecB.val, vecB.val)
  IN [threw |-> FALSE, value |-> NumDiv(dotProduct, Sqrt(normA) * Sqrt(normB))]

cosineSimilarity(vecA, vecB) ==
  IF vecA.dim # vecB.dim
  THEN [threw |-> TRUE, value |-> NaN]
  ELSE LET common == (DOMAIN vecA.val) \cap (DOMAIN vecB.val)
           dotProduct == SumOver(common, [i \in common |-> vecA.val[i] * vecB.val[i]])
           normA == SumSquares(DOMAIN vecA.val, vecA.val)
           normB == SumSquares(DOMAIN vecB.val, vecB.val)
       IN [threw |-> FALSE, value |-> NumDiv(dotProduct, Sqrt(normA) * Sqrt(normB))]

(***************************************************************************)
(* extractKeywords                                                         *)
(***************************************************************************)
RECURSIVE Unique(_)
Unique(s) ==
  IF s = <<>> THEN <<>>
  ELSE LET init == Unique(SubSeq(s, 1, Len(s) - 1))
           last == s[Len(s)]
       IN IF \E i \in 1..Len(init) : init[i] = last THEN init ELSE Append(init, last)

extractKeywords(text) ==
  Unique(SelectSeq(SelectTokens(expandAbbreviations(text)),
                   LAMBDA w : Len(Chars(w)) > 2 /\ w \notin keywordStopwords))

\* String.prototype.includes of a keyword in a lower-cased text: a keyword has
\* no whitespace, so it matches inside one token
IsSubstring(a, b) ==
  \E k \in 0..(Len(b) - Len(a)) : \A i \in 1..Len(a) : b[k + i] = a[i]

Includes(text, keyword) ==
  \E i \in 1..Len(text) : IsSubstring(Chars(keyword), Chars(text[i]))

(***************************************************************************)
(* findSimilarDocumentsHybrid                                              *)
(* documents: sequence of [id, embedding, title, content, excerpt]         *)
(***************************************************************************)
\* the variant without the division by the number of keywords
KeywordScoreNotNormalized(queryKeywords, doc) ==
  LET n == Len(queryKeywords)
      titleMatches == Cardinality({k \in 1..n : Includes(doc.title, queryKeywords[k])})
      contentMatches ==
        Cardinality({k \in 1..n : Includes(doc.content \o <<WS>> \o doc.excerpt, queryKeywords[k])})
  IN Num(titleMatches * 500 + contentMatches * 100)

\* keywordScore of one document: +0.5 per keyword in the title, +0.1 per
\* keyword in content + ' ' + excerpt, divided by the number of keywords
KeywordScore(queryKeywords, doc) ==
  LET n == Len(queryKeywords)
      titleMatches == Cardinality({k \in 1..n : Includes(doc.title, queryKeywords[k])})
      contentMatches ==
        Cardinality({k \in 1..n : Includes(doc.content \o <<WS>> \o doc.excerpt, queryKeywords[k])})
      raw == titleMatches * 500 + contentMatches * 100
  IN Num(IF n > 0 THEN raw \div n ELSE raw)

\* one element of results: the document with its scores
ScoreDocument(queryKeywords, queryEmbedding, doc) ==
  LET semanticScore == cosineSimilarity(queryEmbedding, doc.embedding).value
      keywordScore == KeywordScore(queryKeywords, doc)
  IN [id |-> doc.id, title |-> doc.title, content |-> doc.content, excerpt |-> doc.excerpt,
      similarity |-> NumAdd(NumMulConst(semanticScore, 600), NumMulConst(keywordScore, 400)),
      semanticScore |-> semanticScore,
      keywordScore |-> keywordScore]

Orders(n) == {f \in [1..n -> 1..n] : \A i, j \in 1..n : f[i] = f[j] => i = j}

\* results.sort((a, b) => b.similarity - a.similarity): the orders the sort can
\* produce.  The sort is stable, so a comparator without NaN gives one order.
\* With a NaN among the scores the comparator is inconsistent (NaN counts as 0)
\* and the order is implementation-defined.
SortOutcomes(results) ==
  LET n == Len(results)
      before(j, k) == results[j].similarity.v > results[k].similarity.v
                        \/ (results[j].similarity.v = results[k].similarity.v /\ j < k)
      position(k) == 1 + Cardinality({j \in 1..n : j # k /\ before(j, k)})
  IN IF \E k \in 1..n : results[k].similarity.nan
     THEN {[i \in 1..n |-> results[f[i]]] : f \in Orders(n)}
     ELSE {[i \in 1..n |-> results[CHOOSE k \in 1..n : position(k) = i]]}

Slice(s, from, to) == SubSeq(s, from + 1, IF to < Len(s) THEN to ELSE Len(s))

\* the outcomes of findSimilarDocumentsHybrid: it throws, or returns a ranking
findSimilarDocumentsHybrid(query, queryEmbedding, documents, topK) ==
  LET queryKeywords == extractKeywords(query)
      n == Len(documents)
  IN IF \E k \in 1..n : cosineSimilarity(queryEmbedding, documents[k].embedding).threw
     THEN {[threw |-> TRUE, ranked |-> <<>>]}
     ELSE {[threw |-> FALSE, ranked |-> Slice(sorted, 0, topK)] :
             sorted \in SortOutcomes([k \in 1..n |->
                          ScoreDocument(queryKeywords, queryEmbedding, documents[k])])}

(***************************************************************************)
(* Bounds and inputs                                                       *)
(***************************************************************************)
MaxArticles == 2
ArticleIds == 1..MaxArticles

\* request bodies of createArticle: {title, excerpt, content}
DocMongo == [title |-> <<"mongodb", "connection">>, excerpt |-> <<>>,
             content |-> <<"database", "refused">>]
\* a document of stopwords only: no recognized feature
DocStopwords == [title |-> <<"the">>, excerpt |-> <<>>, content |-> <<"is", "it">>]
\* a document whose body is whitespace only
DocEmptyBody == [title |-> <<"connection">>, excerpt |-> <<>>, content |-> <<WS>>]
\* a request without content
DocNoContent == [title |-> <<"mongodb">>, excerpt |-> <<>>, content |-> <<>>]

DocInputs == {DocMongo, DocStopwords, DocNoContent}

\* the article of the query scenario, titled "MongoDB Connection Refused Error",
\* with the bodies it is given
RefusedTitle == <<"mongodb", "connection", "refused", "error">>
RefusedBodies == {<<"database", "refused">>, <<"the", "database", "is", "refused">>, <<WS>>}
RefusedDocs == {[title |-> RefusedTitle, excerpt |-> <<>>, content |-> body] :
                  body \in RefusedBodies}
\* a document of 8099 characters of content: its text to embed is longer
\* than the 8000 characters sent to the external API
DocOverLimit == [title |-> <<"mongodb">>, excerpt |-> <<>>,
                 content |-> [i \in 1..900 |-> "database"]]
CreateStatuses == {"PENDING", "APPROVED"}

\* request bodies of searchWithRAG: {query}
Query(text) == [present |-> TRUE, text |-> text]
QueryMissing == [present |-> FALSE, text |-> <<>>]
Queries == {QueryMissing, Query(<<>>), Query(<<WS>>), Query(<<"the">>),
            Query(<<"mongodb", "connection", "error">>), Query(<<"error">>)}

\* a query with keywords of a title and of a content ("db" is expanded)
ContentQuery == Query(<<"mongodb", "db", "refused">>)

\* process.env at start-up: EMBEDDING_PROVIDER, OPENAI_API_KEY, EMBEDDING_MODEL
ConfigLocal == [provider |-> "local", apiKey |-> FALSE, envModel |-> "unset"]
ConfigOpenAI == [provider |-> "openai", apiKey |-> TRUE, envModel |-> "unset"]
\* the environments of a usable service
Configs == {ConfigLocal, ConfigOpenAI}

\* the vectors the external embedding API answers with: text-embedding-3-small
\* returns unit vectors of 1536 components
ExternalDim == 1536
ExtVectors == {[dim |-> ExternalDim, val |-> (0 :> 1000)],
               [dim |-> ExternalDim, val |-> (0 :> 600 @@ 1 :> 800)]}

NoArticle == [status |-> "NONE", title |-> <<>>, excerpt |-> <<>>, content |-> <<>>,
              approvedBy |-> FALSE]
DeletedArticle == [NoArticle EXCEPT !.status = "DELETED"]

Exists(id) == articles[id].status \notin {"NONE", "DELETED"}

(***************************************************************************)
(* EmbeddingService                                                        *)
(***************************************************************************)
\* constructor: this.openai is set only for provider openai with an API key
HasOpenAI(cfg) == cfg.provider = "openai" /\ cfg.apiKey

\* the mutant: every environment passes for a usable one
isConfiguredAlways(cfg) == TRUE

isConfigured(cfg) ==
  IF cfg.provider = "openai" THEN cfg.apiKey
  ELSE IF cfg.provider = "local" THEN TRUE
  ELSE FALSE

\* process.env.EMBEDDING_MODEL || 'text-embedding-3-small'
EmbeddingModelLabel(cfg) ==
  IF cfg.envModel = "unset" THEN "text-embedding-3-small" ELSE cfg.envModel

Threw(msg) == [threw |-> TRUE, error |-> msg, embedding |-> ZeroVector(0)]
Returned(vec) == [threw |-> FALSE, error |-> "", embedding |-> vec]

\* input: text.substring(0, 8000)
InputLimit == 8000

\* the text the provider computes the vector from: the external API is sent
\* text.substring(0, 8000), the local provider works on the whole text
EmbeddingInput(cfg, text) ==
  IF cfg.provider = "openai" THEN Substring(text, InputLimit) ELSE text

\* generateOpenAIEmbedding: the API call fails or answers with a vector
generateOpenAIEmbedding(cfg, text) ==
  IF ~HasOpenAI(cfg) THEN {Threw("OpenAI API key not configured")}
  ELSE {Threw("embedding API call failed")} \cup {Returned(v) : v \in ExtVectors}

\* generateLocalEmbedding is a function of the text alone: its values on the
\* texts of the inputs are computed once
KnownTexts ==
  {q.text : q \in Queries \cup {ContentQuery}}
    \cup {d.title \o <<NL>> \o d.excerpt \o <<NL>> \o d.content :
            d \in DocInputs \cup {DocEmptyBody, DocOverLimit} \cup RefusedDocs}
LocalEmbeddings == [t \in KnownTexts |-> generateLocalEmbedding(t)]
LocalEmbedding(text) ==
  IF text \in KnownTexts THEN LocalEmbeddings[text] ELSE generateLocalEmbedding(text)

\* the outcomes of generateEmbedding(text)
generateEmbedding(cfg, text) ==
  IF IsBlank(text) THEN {Threw("Text cannot be empty")}
  ELSE IF cfg.provider = "openai" THEN generateOpenAIEmbedding(cfg, text)
  ELSE IF cfg.provider = "local" THEN {Returned(LocalEmbedding(text))}
  ELSE {Threw("Unsupported embedding provider")}

\* topDoc.content.substring(0, 300)
PreviewLength == 300

\* the variant that lists every further document
generateRuleBasedAnswerListingAll(relevantDocs) ==
  IF Len(relevantDocs) = 0
  THEN [kind |-> "no information", title |-> <<>>, quote |-> <<>>, ellipsis |-> FALSE,
        related |-> <<>>]
  ELSE LET topDoc == relevantDocs[1]
       IN [kind |-> "extractive",
           title |-> topDoc.title,
           quote |-> IF topDoc.excerpt # <<>> THEN topDoc.excerpt
                     ELSE Trim(Substring(topDoc.content, PreviewLength)),
           ellipsis |-> topDoc.excerpt = <<>>,
           related |-> [i \in 1..(Len(relevantDocs) - 1) |-> relevantDocs[i + 1].title]]

\* generateRuleBasedAnswer: the parts of the answer text
generateRuleBasedAnswer(relevantDocs) ==
  IF Len(relevantDocs) = 0
  THEN [kind |-> "no information", title |-> <<>>, quote |-> <<>>, ellipsis |-> FALSE,
        related |-> <<>>]
  ELSE LET topDoc == relevantDocs[1]
       IN [kind |-> "extractive",
           title |-> topDoc.title,
           quote |-> IF topDoc.excerpt # <<>> THEN topDoc.excerpt
                     ELSE Trim(Substring(topDoc.content, PreviewLength)),
           ellipsis |-> topDoc.excerpt = <<>>,
           related |-> [i \in 1..Len(Slice(relevantDocs, 1, 3)) |->
                          Slice(relevantDocs, 1, 3)[i].title]]

GeneratedAnswer ==
  [kind |-> "generative", title |-> <<>>, quote |-> <<>>, ellipsis |-> FALSE, related |-> <<>>]
NoAnswer ==
  [kind |-> "none", title |-> <<>>, quote |-> <<>>, ellipsis |-> FALSE, related |-> <<>>]

\* the outcomes of generateAnswer: the chat call answers, or it fails and the
\* catch block logs and rethrows
generateAnswer(cfg, relevantDocs) ==
  IF cfg.provider = "local" \/ ~HasOpenAI(cfg)
  THEN {[threw |-> FALSE, llm |-> "unused", answer |-> generateRuleBasedAnswer(relevantDocs)]}
  ELSE {[threw |-> FALSE, llm |-> "answered", answer |-> GeneratedAnswer],
        [threw |-> TRUE, llm |-> "failed", answer |-> NoAnswer]}

(***************************************************************************)
(* Responses.  Besides the JSON body a response records what the handler   *)
(* did on the way: the request, whether an embedding was generated, whether*)
(* the store was read, the ranking and the floor used.  The variable resp  *)
(* keeps the status line of the response sent last (StatusLine); the       *)
(* bodies a handler can send in a state are given by operators             *)
(* (SearchOutcomes, IndexOutcomes, BatchOutcomes).                         *)
(***************************************************************************)
NoResp ==
  [handler |-> "none", status |-> 0, message |-> "", found |-> FALSE,
   query |-> QueryMissing, embedded |-> FALSE, scanned |-> FALSE,
   queryDim |-> 0, ranked |-> <<>>, floor |-> 0, llm |-> "unused", answer |-> NoAnswer,
   sources |-> <<>>, alternatives |-> <<>>,
   articleId |-> 0, indexed |-> 0, failed |-> 0, total |-> 0, errors |-> <<>>,
   outcomes |-> <<>>]

StatusLine(r) ==
  [handler |-> r.handler, status |-> r.status, found |-> r.found, articleId |-> r.articleId,
   indexed |-> r.indexed, failed |-> r.failed]

(***************************************************************************)
(* searchWithRAG                                                           *)
(***************************************************************************)
\* the mutant: the check without the trim
QueryRejectedNoTrim(req) == ~req.present \/ req.text = <<>>

\* !query || query.trim().length === 0
QueryRejected(req) == ~req.present \/ IsBlank(req.text)

\* the mutant: populate without the match on status
PopulateMatchAny(id) == Exists(id)

\* populate({path: 'article', match: {status: 'APPROVED'}}): the article of an
\* embedding record is populated when it exists and is approved
PopulateMatch(id) == Exists(id) /\ articles[id].status = "APPROVED"

\* validEmbeddings, mapped to the documents handed to the ranking
ValidEmbeddings ==
  LET valid == SelectSeq(store, LAMBDA emb : PopulateMatch(emb.article))
  IN [k \in 1..Len(valid) |->
        [id |-> valid[k].article, embedding |-> valid[k].embedding,
         title |-> articles[valid[k].article].title,
         content |-> articles[valid[k].article].content,
         excerpt |-> articles[valid[k].article].excerpt]]

\* the mutant: a floor no hybrid score reaches
minSimilarityOne(cfg) == Scale

\* the variant with one floor for every provider
minSimilarityGlobal(cfg) == 50

\* minSimilarity, from process.env.EMBEDDING_PROVIDER || 'local'
minSimilarity(cfg) == IF cfg.provider \in {"local", "gemini"} THEN 50 ELSE 500

SourceOf(doc) == [id |-> doc.id, title |-> doc.title, similarity |-> doc.similarity]

SearchResp(req) == [NoResp EXCEPT !.handler = "searchWithRAG", !.query = req]

\* the response after the ranking, similarDocs
SearchAfterRanking(req, base, similarDocs) ==
  IF Len(similarDocs) = 0 \/ NumLt(similarDocs[1].similarity, Num(minSimilarity(config)))
  THEN {[base EXCEPT !.status = 200, !.message = "No relevant articles found"]}
  ELSE LET relevantArticles == Slice(similarDocs, 0, 3)
       IN {IF a.threw
           THEN [base EXCEPT !.status = 500, !.message = "chat completion failed",
                             !.llm = a.llm]
           ELSE [base EXCEPT !.status = 200, !.found = TRUE, !.llm = a.llm,
                             !.answer = a.answer,
                             !.sources = [i \in 1..Len(relevantArticles) |->
                                            SourceOf(relevantArticles[i])],
                             !.alternatives = [i \in 1..Len(Slice(similarDocs, 3, 5)) |->
                                                 SourceOf(Slice(similarDocs, 3, 5)[i])]] :
           a \in generateAnswer(config, relevantArticles)}

\* the response after the query embedding
SearchAfterEmbedding(req, queryEmbedding) ==
  LET base == [SearchResp(req) EXCEPT !.embedded = TRUE, !.scanned = TRUE,
                                      !.queryDim = queryEmbedding.dim,
                                      !.floor = minSimilarity(config)]
      documents == ValidEmbeddings
  IN IF Len(documents) = 0
     THEN {[base EXCEPT !.status = 200, !.message = "No indexed articles found"]}
     ELSE UNION {IF r.threw
                 THEN {[base EXCEPT !.status = 500,
                                    !.message = "Vectors must have same dimensions"]}
                 ELSE SearchAfterRanking(req, [base EXCEPT !.ranked = r.ranked], r.ranked) :
                 r \in findSimilarDocumentsHybrid(req.text, queryEmbedding, documents, 5)}

\* every response searchWithRAG can send to req in the current state
SearchOutcomes(req) ==
  IF QueryRejected(req)
  THEN {[SearchResp(req) EXCEPT !.status = 400, !.message = "Please provide a search query"]}
  ELSE IF ~isConfigured(config)
  THEN {[SearchResp(req) EXCEPT !.status = 503, !.message = "RAG service is not configured"]}
  ELSE UNION {IF e.threw
              THEN {[SearchResp(req) EXCEPT !.status = 500, !.embedded = TRUE,
                                            !.message = e.error]}
              ELSE SearchAfterEmbedding(req, e.embedding) :
              e \in generateEmbedding(config, req.text)}

\* the mutant: a search that drops the records it filtered out
searchWithRAGPruning(req) ==
  /\ \E r \in SearchOutcomes(req) : resp' = StatusLine(r)
  /\ store' = SelectSeq(store, LAMBDA emb : PopulateMatch(emb.article))
  /\ UNCHANGED <<config, articles, procs>>

searchWithRAG(req) ==
  /\ \E r \in SearchOutcomes(req) : resp' = StatusLine(r)
  /\ UNCHANGED <<config, articles, store, procs>>

(***************************************************************************)
(* Article handlers (articleController, adminController)                   *)
(***************************************************************************)
\* resp describes the last response of the chatbot controller for as long as
\* the collections are the ones it was computed from: a request to another
\* controller clears it.  These handlers answer `status`.
Reply(handler, status, id) == StatusLine(NoResp)

UnusedIds == {id \in ArticleIds : articles[id].status = "NONE"}

\* createArticle: status is req.body.status || "PENDING"
createArticle(doc, status) ==
  /\ UnusedIds # {}
  /\ LET id == CHOOSE i \in UnusedIds : \A j \in UnusedIds : i <= j
     IN IF doc.title = <<>> \/ doc.content = <<>>
        THEN /\ resp' = Reply("createArticle", 400, 0)
             /\ UNCHANGED articles
        ELSE /\ articles' = [articles EXCEPT ![id] =
                               [status |-> status, title |-> doc.title,
                                excerpt |-> doc.excerpt, content |-> doc.content,
                                approvedBy |-> FALSE]]
             /\ resp' = Reply("createArticle", 201, id)
  /\ UNCHANGED <<config, store, procs>>

approveArticle(id) ==
  /\ IF ~Exists(id)
     THEN /\ resp' = Reply("approveArticle", 404, id)
          /\ UNCHANGED articles
     ELSE /\ articles' = [articles EXCEPT ![id].status = "APPROVED", ![id].approvedBy = TRUE]
          /\ resp' = Reply("approveArticle", 200, id)
  /\ UNCHANGED <<config, store, procs>>

rejectArticle(id) ==
  /\ IF ~Exists(id)
     THEN /\ resp' = Reply("rejectArticle", 404, id)
          /\ UNCHANGED articles
     ELSE /\ articles' = [articles EXCEPT ![id].status = "REJECTED"]
          /\ resp' = Reply("rejectArticle", 200, id)
  /\ UNCHANGED <<config, store, procs>>

\* admin: findByIdAndUpdate(articleId, {status: "DRAFT", approvedBy: null, approvedAt: null})
unpublishArticle(id) ==
  /\ IF ~Exists(id)
     THEN /\ resp' = Reply("unpublishArticle", 404, id)
          /\ UNCHANGED articles
     ELSE /\ articles' = [articles EXCEPT ![id].status = "DRAFT", ![id].approvedBy = FALSE]
          /\ resp' = Reply("unpublishArticle", 200, id)
  /\ UNCHANGED <<config, store, procs>>

\* articleController.deleteArticle, by the author or an admin: article.deleteOne()
deleteArticle(id) ==
  /\ IF ~Exists(id)
     THEN /\ resp' = Reply("deleteArticle", 404, id)
          /\ UNCHANGED articles
     ELSE /\ articles' = [articles EXCEPT ![id] = DeletedArticle]
          /\ resp' = Reply("deleteArticle", 200, id)
  /\ UNCHANGED <<config, store, procs>>

\* adminController.deleteArticle: Article.findByIdAndDelete(articleId)
adminDeleteArticle(id) ==
  /\ IF ~Exists(id)
     THEN /\ resp' = Reply("adminDeleteArticle", 404, id)
          /\ UNCHANGED articles
     ELSE /\ articles' = [articles EXCEPT ![id] = DeletedArticle]
          /\ resp' = Reply("adminDeleteArticle", 200, id)
  /\ UNCHANGED <<config, store, procs>>

(***************************************************************************)
(* Indexing: the parts shared by indexArticle and indexAllArticles         *)
(***************************************************************************)
\* the Article schema has no pdfText path, so article.pdfText is undefined
PdfText(article) == <<>>

\* the mutant: the body alone is embedded
TextToEmbedBodyOnly(article) == article.content

\* `${title}\n\n${excerpt || ''}\n\n${content}` (+ the PDF text when present)
TextToEmbed(article) ==
  article.title \o <<NL>> \o article.excerpt \o <<NL>> \o article.content
    \o (IF PdfText(article) # <<>> THEN <<NL, "pdf", NL>> \o PdfText(article) ELSE <<>>)

\* the mutant: the vector is not stored as the provider returned it
EmbeddingRecordWithoutVector(id, text, embedding) ==
  [article |-> id, embedding |-> ZeroVector(embedding.dim), textContent |-> text,
   embeddingModel |-> EmbeddingModelLabel(config)]

\* the update document of findOneAndUpdate
EmbeddingRecord(id, text, embedding) ==
  [article |-> id, embedding |-> embedding, textContent |-> text,
   embeddingModel |-> EmbeddingModelLabel(config)]

NoSnapshot == [id |-> 0, title |-> <<>>, excerpt |-> <<>>, content |-> <<>>]

NoRecord ==
  [article |-> 0, embedding |-> ZeroVector(0), textContent |-> <<>>, embeddingModel |-> ""]

HasRecord(st, id) == \E i \in 1..Len(st) : st[i].article = id

\* the record of id is replaced (the first one, should there be several)
UpdateRecord(st, rec) ==
  LET first == CHOOSE i \in 1..Len(st) :
                 st[i].article = rec.article /\ \A j \in 1..(i - 1) : st[j].article # rec.article
  IN [st EXCEPT ![first] = rec]

\* the mutant: an insert whatever the collection holds
UpsertAppending(st, rec) == Append(st, rec)

\* findOneAndUpdate({article: id}, rec, {upsert: true}) with nothing in between
Upsert(st, rec) == IF HasRecord(st, rec.article) THEN UpdateRecord(st, rec) ELSE Append(st, rec)

(***************************************************************************)
(* indexArticle, run to completion                                         *)
(***************************************************************************)
IndexReply(status, id, message) ==
  [NoResp EXCEPT !.handler = "indexArticle", !.status = status, !.articleId = id,
                 !.message = message]

\* every outcome of indexArticle(id) run on the collection st: the store it
\* leaves, the response it sends, the vector the provider returned, the
\* record it handed to findOneAndUpdate and the text the vector was computed
\* from
IndexOutcomesFrom(st, id) ==
  IF ~isConfigured(config)
  THEN {[store |-> st, reply |-> IndexReply(503, id, "Embedding service is not configured"),
         returned |-> ZeroVector(0), written |-> NoRecord,
         embedded |-> <<>>]}
  ELSE IF ~Exists(id)
  THEN {[store |-> st, reply |-> IndexReply(404, id, "Article not found"),
         returned |-> ZeroVector(0), written |-> NoRecord,
         embedded |-> <<>>]}
  ELSE IF articles[id].status # "APPROVED"
  THEN {[store |-> st, reply |-> IndexReply(400, id, "Only approved articles can be indexed"),
         returned |-> ZeroVector(0), written |-> NoRecord,
         embedded |-> <<>>]}
  ELSE LET textToEmbed == TextToEmbed(articles[id])
       IN {IF e.threw
           THEN [store |-> st, reply |-> IndexReply(500, id, e.error),
                 returned |-> ZeroVector(0), written |-> NoRecord,
                 embedded |-> <<>>]
           ELSE [store |-> Upsert(st, EmbeddingRecord(id, textToEmbed, e.embedding)),
                 reply |-> [IndexReply(200, id, "Article indexed successfully")
                              EXCEPT !.embedded = TRUE],
                 returned |-> e.embedding,
                 written |-> EmbeddingRecord(id, textToEmbed, e.embedding),
                 embedded |-> EmbeddingInput(config, textToEmbed)] :
           e \in generateEmbedding(config, textToEmbed)}

\* every outcome of indexArticle(id) in the current state
IndexOutcomes(id) == IndexOutcomesFrom(store, id)

\* the variant without the checks of the article
indexArticleUnchecked(id) ==
  /\ \E e \in generateEmbedding(config, TextToEmbed(articles[id])) :
       /\ ~e.threw
       /\ store' = Upsert(store, EmbeddingRecord(id, TextToEmbed(articles[id]), e.embedding))
       /\ resp' = StatusLine(IndexReply(200, id, "Article indexed successfully"))
  /\ UNCHANGED <<config, articles, procs>>

indexArticle(id) ==
  /\ \E o \in IndexOutcomes(id) :
       /\ store' = o.store
       /\ resp' = StatusLine(o.reply)
  /\ UNCHANGED <<config, articles, procs>>

(***************************************************************************)
(* indexAllArticles, run to completion                                     *)
(***************************************************************************)
\* Article.find({status: 'APPROVED'}): the approved articles, in id order
RECURSIVE ApprovedFrom(_)
ApprovedFrom(id) ==
  IF id \notin DOMAIN articles THEN <<>>
  ELSE (IF Exists(id) /\ articles[id].status = "APPROVED"
        THEN <<[id |-> id, title |-> articles[id].title, excerpt |-> articles[id].excerpt,
                content |-> articles[id].content]>>
        ELSE <<>>) \o ApprovedFrom(id + 1)

ApprovedArticles == ApprovedFrom(1)

\* the loop variables: indexed, failed, errors; `escaped` is set when an
\* exception leaves the loop; `outcomes` lists the articles attempted
BatchBegin(st) ==
  [store |-> st, indexed |-> 0, failed |-> 0, errors |-> <<>>, escaped |-> FALSE,
   outcomes |-> <<>>]

\* the mutant: no try/catch around the loop body
OnArticleErrorEscaping(acc, article, message) ==
  [acc EXCEPT !.escaped = TRUE,
              !.outcomes = Append(@, [id |-> article.id, ok |-> FALSE])]

\* the catch block of the loop body
OnArticleError(acc, article, message) ==
  [acc EXCEPT !.failed = @ + 1,
              !.errors = Append(@, [articleId |-> article.id, title |-> article.title,
                                    error |-> message]),
              !.outcomes = Append(@, [id |-> article.id, ok |-> FALSE])]

\* the end of the try block of the loop body
OnArticleIndexed(acc, article, st) ==
  [acc EXCEPT !.store = st, !.indexed = @ + 1,
              !.outcomes = Append(@, [id |-> article.id, ok |-> TRUE])]

\* the loop body for articles[k .. ], with outs[k] the outcome of the k-th
\* generateEmbedding call
RECURSIVE BatchRun(_, _, _, _)
BatchRun(batch, outs, k, acc) ==
  IF k > Len(batch) \/ acc.escaped THEN acc
  ELSE LET article == batch[k]
           textToEmbed == TextToEmbed(article)
       IN BatchRun(batch, outs, k + 1,
            IF outs[k].threw
            THEN OnArticleError(acc, article, outs[k].error)
            ELSE OnArticleIndexed(acc, article,
                   Upsert(acc.store, EmbeddingRecord(article.id, textToEmbed,
                                                     outs[k].embedding))))

BatchReply(batch, acc) ==
  IF acc.escaped
  THEN [NoResp EXCEPT !.handler = "indexAllArticles", !.status = 500,
                      !.message = "Error indexing articles", !.outcomes = acc.outcomes]
  ELSE [NoResp EXCEPT !.handler = "indexAllArticles", !.status = 200,
                      !.message = "Indexed articles",
                      !.indexed = acc.indexed, !.failed = acc.failed,
                      !.total = Len(batch), !.errors = acc.errors,
                      !.outcomes = acc.outcomes]

\* the functions 1..n -> outcome of the k-th embedding call
EmbeddingOutcomes(batch) ==
  {outs \in [1..Len(batch) -> UNION {generateEmbedding(config, TextToEmbed(batch[k])) :
                                       k \in 1..Len(batch)}] :
     \A k \in 1..Len(batch) : outs[k] \in generateEmbedding(config, TextToEmbed(batch[k]))}

\* every outcome of indexAllArticles run on the collection st
BatchOutcomesFrom(st) ==
  IF ~isConfigured(config)
  THEN {[store |-> st,
         reply |-> [NoResp EXCEPT !.handler = "indexAllArticles", !.status = 503,
                                  !.message = "Embedding service is not configured"]]}
  ELSE LET batch == ApprovedArticles
       IN IF Len(batch) = 0
          THEN {[store |-> st,
                 reply |-> [NoResp EXCEPT !.handler = "indexAllArticles", !.status = 200,
                                          !.message = "No approved articles to index"]]}
          ELSE {LET acc == BatchRun(batch, outs, 1, BatchBegin(st))
                IN [store |-> acc.store, reply |-> BatchReply(batch, acc)] :
                outs \in EmbeddingOutcomes(batch)}

\* every outcome of indexAllArticles in the current state
BatchOutcomes == BatchOutcomesFrom(store)

indexAllArticles ==
  /\ \E o \in BatchOutcomes :
       /\ store' = o.store
       /\ resp' = StatusLine(o.reply)
  /\ UNCHANGED <<config, articles, procs>>

(***************************************************************************)
(* The process is restarted with another environment                       *)
(***************************************************************************)
\* a request slot with no handler running; after a handler has answered, the
\* slot keeps what the handler did until the next request is taken
IdleProc ==
  [pc |-> "idle", op |-> "none", status |-> 0, queue |-> <<>>, article |-> NoSnapshot,
   rec |-> NoRecord, indexed |-> 0, failed |-> 0, errors |-> <<>>,
   conflicts |-> {}, writes |-> {}]

Restart(cfg) ==
  /\ cfg # config
  /\ \A p \in DOMAIN procs : procs[p].pc = "idle"
  /\ config' = cfg
  /\ resp' = StatusLine(NoResp)
  /\ UNCHANGED <<articles, store, procs>>

(***************************************************************************)
(* Specification: the handlers run to completion, one at a time            *)
(***************************************************************************)
Procs == {1, 2}

Init ==
  /\ config \in Configs
  /\ articles = [id \in ArticleIds |-> NoArticle]
  /\ store = <<>>
  /\ procs = [p \in Procs |-> IdleProc]
  /\ resp = StatusLine(NoResp)

Next ==
  \/ \E doc \in DocInputs, status \in CreateStatuses : createArticle(doc, status)
  \/ \E id \in ArticleIds : approveArticle(id)
  \/ \E id \in ArticleIds : rejectArticle(id)
  \/ \E id \in ArticleIds : unpublishArticle(id)
  \/ \E id \in ArticleIds : deleteArticle(id)
  \/ \E id \in ArticleIds : adminDeleteArticle(id)
  \/ \E id \in ArticleIds : indexArticle(id)
  \/ indexAllArticles
  \/ \E req \in Queries : searchWithRAG(req)
  \/ \E cfg \in Configs : Restart(cfg)

Spec == Init /\ [][Next]_vars

(***************************************************************************)
(* Claims checked under Spec                                               *)
(***************************************************************************)
ElementsOf(seq) == {seq[i] : i \in 1..Len(seq)}

StaleRecords == {i \in 1..Len(store) : ~PopulateMatch(store[i].article)}

\* C1: in indexAllArticles a failure while embedding or upserting one approved
\* article is caught and recorded and does not abort the batch: the response is
\* the batch summary, every approved article of the batch was attempted in
\* order, indexed + failed = total, errors has exactly one entry per failed
\* article, naming it, and every article that did not fail has its record.
C1_BatchIsolatesFailures ==
  (isConfigured(config) /\ Len(ApprovedArticles) > 0) =>
    \A o \in BatchOutcomes :
      LET r == o.reply
          batch == ApprovedArticles
          failures == SelectSeq(r.outcomes, LAMBDA x : ~x.ok)
      IN /\ r.status = 200
         /\ r.total = Len(batch)
         /\ r.indexed + r.failed = r.total
         /\ Len(r.outcomes) = Len(batch)
         /\ \A k \in 1..Len(batch) : r.outcomes[k].id = batch[k].id
         /\ Len(r.errors) = r.failed
         /\ Len(failures) = r.failed
         /\ \A k \in 1..Len(r.errors) :
              /\ r.errors[k].articleId = failures[k].id
              /\ r.errors[k].title = articles[failures[k].id].title
         /\ \A k \in 1..Len(r.outcomes) : r.outcomes[k].ok => HasRecord(o.store, r.outcomes[k].id)

\* a batch answered with one article failed and another one indexed
C1_Witness ==
  resp.handler = "indexAllArticles" /\ resp.status = 200 /\ resp.failed >= 1 /\ resp.indexed >= 1

\* C2: every source and alternative searchWithRAG returns is an article that
\* exists with status APPROVED in the state the store is scanned in.
C2_SourcesAreApproved ==
  \A req \in Queries : \A r \in SearchOutcomes(req) :
    \A s \in ElementsOf(r.sources) \cup ElementsOf(r.alternatives) :
      Exists(s.id) /\ articles[s.id].status = "APPROVED"

\* a search found sources while the store holds a record of an article that was
\* deleted or is not approved
C2_Witness ==
  resp.handler = "searchWithRAG" /\ resp.found /\ StaleRecords # {}

\* C3: a search that answers found: true has a top result whose hybrid score is
\* a number >= the floor, and a ranking whose top score is below the floor is
\* answered found: false without sources.
C3_FoundOnlyAboveFloor ==
  \A req \in Queries : \A r \in SearchOutcomes(req) :
    /\ r.found => (r.ranked # <<>> /\ ~r.ranked[1].similarity.nan
                     /\ r.ranked[1].similarity.v >= r.floor)
    /\ (r.ranked # <<>> /\ NumLt(r.ranked[1].similarity, Num(r.floor))) =>
         (~r.found /\ r.sources = <<>> /\ r.message = "No relevant articles found")

\* C4: no semanticScore and no hybrid score of a ranking is NaN: a zero vector
\* is never compared.
C4_NoScoreIsNaN ==
  \A req \in Queries : \A r \in SearchOutcomes(req) :
    /\ \A k \in 1..Len(r.ranked) :
         ~r.ranked[k].semanticScore.nan /\ ~r.ranked[k].similarity.nan
    /\ \A k \in 1..Len(r.sources) : ~r.sources[k].similarity.nan

\* C5: a search whose generative call failed is answered found: true with the
\* extractive answer and its sources.
C5_GenerativeFailureFallsBack ==
  \A req \in Queries : \A r \in SearchOutcomes(req) :
    r.llm = "failed" =>
      (r.status = 200 /\ r.found /\ r.answer.kind = "extractive" /\ r.sources # <<>>)

\* C8: when the vector of some candidate handed to the ranking has another
\* length than the query vector, the search ends in the dimension error, with
\* no ranking and no sources.
C8_DimensionMismatchIsAnError ==
  \A req \in Queries : \A r \in SearchOutcomes(req) :
    (r.scanned /\ \E k \in 1..Len(ValidEmbeddings) :
                    ValidEmbeddings[k].embedding.dim # r.queryDim) =>
      (r.status = 500 /\ r.message = "Vectors must have same dimensions"
         /\ ~r.found /\ r.ranked = <<>> /\ r.sources = <<>> /\ r.alternatives = <<>>)

\* with the local provider, a search ended in an error over an index that holds
\* a vector of another length
C8_Witness ==
  /\ config.provider = "local"
  /\ resp.handler = "searchWithRAG" /\ resp.status = 500
  /\ \E k \in 1..Len(ValidEmbeddings) : ValidEmbeddings[k].embedding.dim # vectorSize

\* C9: a search whose query is missing, empty or only whitespace is answered
\* 400 "please provide a query"; no embedding was generated, the store was not
\* read and nothing was ranked.
C9_BlankQueryRejected ==
  \A req \in Queries :
    (~req.present \/ \A i \in 1..Len(req.text) : req.text[i] \in Whitespace) =>
      \A r \in SearchOutcomes(req) :
        /\ r.status = 400 /\ r.message = "Please provide a search query"
        /\ ~r.embedded /\ ~r.scanned
        /\ ~r.found /\ r.ranked = <<>> /\ r.sources = <<>> /\ r.alternatives = <<>>

\* a search was rejected while approved articles were indexed
C9_Witness ==
  resp.handler = "searchWithRAG" /\ resp.status = 400 /\ Len(ValidEmbeddings) > 0

(***************************************************************************)
(* Concurrent index operations.  Each request of Procs runs its handler    *)
(* one await at a time: generateEmbedding, then findOneAndUpdate, which    *)
(* the server evaluates as a query followed, when nothing matched, by an   *)
(* insert checked against the unique index on `article`.                   *)
(***************************************************************************)
\* the mutant: the collection without the unique index
UniqueIndexAllowsAnything(st, rec) == TRUE

\* articleEmbeddingSchema.index({article: 1}, {unique: true})
UniqueIndexAllows(st, rec) == ~HasRecord(st, rec.article)

\* the request is between the call and the return of findOneAndUpdate
InUpsert(proc) == proc.pc \in {"upsert", "insert"}

\* the upsert of p runs while another request upserts the same article
Overlaps(ps, p) ==
  /\ InUpsert(ps[p])
  /\ \E q \in DOMAIN ps : q # p /\ InUpsert(ps[q]) /\ ps[q].article.id = ps[p].article.id

MarkConflicts(ps) ==
  [p \in DOMAIN ps |->
     IF Overlaps(ps, p) THEN [ps[p] EXCEPT !.conflicts = @ \cup {ps[p].article.id}] ELSE ps[p]]

\* the handler answers
Answer(proc, status) ==
  [proc EXCEPT !.pc = "idle", !.status = status, !.article = NoSnapshot, !.rec = NoRecord,
               !.queue = <<>>]

ProcReply(proc) ==
  [NoResp EXCEPT !.handler = proc.op, !.status = proc.status,
                 !.indexed = proc.indexed, !.failed = proc.failed]

\* for (const article of articles): the next iteration, or the summary
NextArticle(proc) ==
  IF proc.queue # <<>>
  THEN [proc EXCEPT !.pc = "embed", !.article = Head(proc.queue), !.queue = Tail(proc.queue),
                    !.rec = NoRecord]
  ELSE Answer(proc, 200)

\* findOneAndUpdate returned
Indexed(proc) ==
  IF proc.op = "indexArticle"
  THEN Answer([proc EXCEPT !.indexed = @ + 1], 200)
  ELSE NextArticle([proc EXCEPT !.indexed = @ + 1])

\* the variant in which a failure ends the batch
CaughtAborting(proc, message) ==
  LET entry == [articleId |-> proc.article.id, title |-> proc.article.title, error |-> message]
  IN Answer([proc EXCEPT !.failed = @ + 1, !.errors = Append(@, entry)], 500)

\* an await threw: indexArticle answers 500, the loop of indexAllArticles
\* records the failure and goes on
Caught(proc, message) ==
  LET entry == [articleId |-> proc.article.id, title |-> proc.article.title, error |-> message]
  IN IF proc.op = "indexArticle"
     THEN Answer([proc EXCEPT !.failed = @ + 1, !.errors = Append(@, entry)], 500)
     ELSE NextArticle([proc EXCEPT !.failed = @ + 1, !.errors = Append(@, entry)])

\* procs and resp after request p moved to `proc`
Moved(p, proc) ==
  /\ procs' = MarkConflicts([procs EXCEPT ![p] = proc])
  /\ resp' = IF proc.pc = "idle" THEN StatusLine(ProcReply(proc)) ELSE resp

\* indexArticle up to its first await on the embedding service
indexArticleCall(p, id) ==
  /\ procs[p].pc = "idle"
  /\ LET proc == [IdleProc EXCEPT !.op = "indexArticle"]
     IN IF ~isConfigured(config) THEN Moved(p, Answer(proc, 503))
        ELSE IF ~Exists(id) THEN Moved(p, Answer(proc, 404))
        ELSE IF articles[id].status # "APPROVED" THEN Moved(p, Answer(proc, 400))
        ELSE Moved(p, [proc EXCEPT !.pc = "embed",
                                   !.article = [id |-> id, title |-> articles[id].title,
                                                excerpt |-> articles[id].excerpt,
                                                content |-> articles[id].content]])
  /\ UNCHANGED <<config, articles, store>>

\* indexAllArticles up to its first await on the embedding service
indexAllArticlesCall(p) ==
  /\ procs[p].pc = "idle"
  /\ LET proc == [IdleProc EXCEPT !.op = "indexAllArticles"]
     IN IF ~isConfigured(config) THEN Moved(p, Answer(proc, 503))
        ELSE Moved(p, NextArticle([proc EXCEPT !.queue = ApprovedArticles]))
  /\ UNCHANGED <<config, articles, store>>

\* await embeddingService.generateEmbedding(textToEmbed)
generateEmbeddingReturns(p) ==
  /\ procs[p].pc = "embed"
  /\ LET textToEmbed == TextToEmbed(procs[p].article)
     IN \E e \in generateEmbedding(config, textToEmbed) :
          IF e.threw
          THEN Moved(p, Caught(procs[p], e.error))
          ELSE LET rec == EmbeddingRecord(procs[p].article.id, textToEmbed, e.embedding)
               IN Moved(p, [procs[p] EXCEPT !.pc = "upsert", !.rec = rec,
                                            !.writes = @ \cup {rec}])
  /\ UNCHANGED <<config, articles, store>>

\* findOneAndUpdate: the query {article: id}; a matching record is updated in
\* the same step, otherwise the insert follows
findOneAndUpdateMatch(p) ==
  /\ procs[p].pc = "upsert"
  /\ IF HasRecord(store, procs[p].rec.article)
     THEN /\ store' = UpdateRecord(store, procs[p].rec)
          /\ Moved(p, Indexed(procs[p]))
     ELSE /\ store' = store
          /\ Moved(p, [procs[p] EXCEPT !.pc = "insert"])
  /\ UNCHANGED <<config, articles>>

\* findOneAndUpdate: the insert of the upsert
findOneAndUpdateInsert(p) ==
  /\ procs[p].pc = "insert"
  /\ UniqueIndexAllows(store, procs[p].rec)
  /\ store' = Append(store, procs[p].rec)
  /\ Moved(p, Indexed(procs[p]))
  /\ UNCHANGED <<config, articles>>

\* findOneAndUpdate: the insert violates the unique index and the server
\* reports E11000; nothing in the handlers retries
findOneAndUpdateDuplicateKey(p) ==
  /\ procs[p].pc = "insert"
  /\ ~UniqueIndexAllows(store, procs[p].rec)
  /\ Moved(p, Caught(procs[p], "E11000 duplicate key error"))
  /\ UNCHANGED <<config, articles, store>>

\* findOneAndUpdate: the insert violates the unique index and the server runs
\* the upsert again
findOneAndUpdateRetry(p) ==
  /\ procs[p].pc = "insert"
  /\ ~UniqueIndexAllows(store, procs[p].rec)
  /\ Moved(p, [procs[p] EXCEPT !.pc = "upsert"])
  /\ UNCHANGED <<config, articles, store>>

\* two approved articles, nothing indexed
InitConc ==
  /\ config \in Configs
  /\ articles = [id \in ArticleIds |->
                   [status |-> "APPROVED", title |-> DocMongo.title,
                    excerpt |-> DocMongo.excerpt, content |-> DocMongo.content,
                    approvedBy |-> TRUE]]
  /\ store = <<>>
  /\ procs = [p \in Procs |-> IdleProc]
  /\ resp = StatusLine(NoResp)

NextConc ==
  \/ \E p \in Procs, id \in ArticleIds : indexArticleCall(p, id)
  \/ \E p \in Procs : indexAllArticlesCall(p)
  \/ \E p \in Procs : generateEmbeddingReturns(p)
  \/ \E p \in Procs : findOneAndUpdateMatch(p)
  \/ \E p \in Procs : findOneAndUpdateInsert(p)
  \/ \E p \in Procs : findOneAndUpdateDuplicateKey(p)
  \/ \E p \in Procs : findOneAndUpdateRetry(p)

SpecConc == InitConc /\ [][NextConc]_vars

RecordsOf(st, id) == {i \in 1..Len(st) : st[i].article = id}

\* C6: whatever the interleaving of indexArticle and indexAllArticles calls,
\* the embedding store holds at most one record per article id.
C6_AtMostOneRecordPerArticle ==
  \A id \in ArticleIds : Cardinality(RecordsOf(store, id)) <= 1

\* two requests whose upserts of the same article overlapped have both
\* answered without an error and the article has its record
C6_Witness ==
  \E id \in ArticleIds :
    /\ \A p \in Procs : procs[p].pc = "idle" /\ id \in procs[p].conflicts /\ procs[p].failed = 0
    /\ Cardinality(RecordsOf(store, id)) = 1

\* C7: two index operations whose upserts of the same article overlapped both
\* complete without an error, and the store ends with exactly one record of
\* the article, which is the record one of the two wrote.
C7_ConcurrentUpsertsLastWriteWins ==
  \A id \in ArticleIds :
    (\A p \in Procs : procs[p].pc = "idle" /\ id \in procs[p].conflicts) =>
      /\ \A p \in Procs :
           /\ procs[p].status = 200
           /\ \A k \in 1..Len(procs[p].errors) : procs[p].errors[k].articleId # id
      /\ Cardinality(RecordsOf(store, id)) = 1
      /\ \A i \in RecordsOf(store, id) : store[i] \in UNION {procs[p].writes : p \in Procs}

(***************************************************************************)
(* The batch over a corpus of ScenarioSize approved articles of which one  *)
(* has an empty body.  createArticle and the schema refuse a content of    *)
(* length 0, so the empty body is a content of whitespace.                 *)
(***************************************************************************)
ScenarioSize == 5

Approved(doc) ==
  [status |-> "APPROVED", title |-> doc.title, excerpt |-> doc.excerpt,
   content |-> doc.content, approvedBy |-> TRUE]

EmptyBodyIds == {id \in DOMAIN articles : Exists(id) /\ IsBlank(articles[id].content)}

InitScenario ==
  /\ config = ConfigLocal
  /\ \E k \in 1..ScenarioSize, docs \in [1..ScenarioSize -> {DocMongo, DocStopwords}] :
       articles = [id \in 1..ScenarioSize |->
                     IF id = k THEN Approved(DocEmptyBody) ELSE Approved(docs[id])]
  /\ store = <<>>
  /\ procs = [p \in Procs |-> IdleProc]
  /\ resp = StatusLine(NoResp)

NextScenario ==
  \/ indexAllArticles
  \/ \E id \in EmptyBodyIds : indexArticle(id)

SpecScenario == InitScenario /\ [][NextScenario]_vars

\* the batch runs with the local provider over ScenarioSize approved articles,
\* exactly one of them with an empty body
ScenarioCorpus ==
  /\ config.provider = "local"
  /\ Len(ApprovedArticles) = ScenarioSize
  /\ Cardinality(EmptyBodyIds) = 1

\* C10 as stated: the batch over the corpus yields indexed = ScenarioSize - 1
\* and failed = 1, with one entry in errors naming the article with the empty
\* body, which gets no embedding record.
C10_EmptyBodyIsAFailure ==
  ScenarioCorpus =>
    \A o \in BatchOutcomes :
      /\ o.reply.indexed = ScenarioSize - 1
      /\ o.reply.failed = 1
      /\ Len(o.reply.errors) = 1
      /\ o.reply.errors[1].articleId \in EmptyBodyIds
      /\ \A id \in EmptyBodyIds : ~HasRecord(o.store, id)

\* C10, amended: with the local provider the batch over the corpus yields
\* indexed = ScenarioSize, failed = 0 and no errors: the text embedded starts
\* with the title, so the article with the empty body is not a failure and
\* gets its record, whose text is title, excerpt and body joined.
C10_EmptyBodyIsIndexed ==
  ScenarioCorpus =>
    \A o \in BatchOutcomes :
      /\ o.reply.status = 200
      /\ o.reply.indexed = ScenarioSize /\ o.reply.failed = 0 /\ o.reply.errors = <<>>
      /\ \A id \in EmptyBodyIds :
             \E i \in RecordsOf(o.store, id) :
               o.store[i].textContent = articles[id].title \o <<NL>> \o articles[id].excerpt
                                          \o <<NL>> \o articles[id].content

\* with the local provider the batch answered indexed = ScenarioSize and the
\* article with the empty body has its record
C10_Witness ==
  /\ config.provider = "local"
  /\ resp.handler = "indexAllArticles" /\ resp.status = 200
  /\ resp.indexed = ScenarioSize /\ resp.failed = 0
  /\ Cardinality(EmptyBodyIds) = 1
  /\ \A id \in EmptyBodyIds : HasRecord(store, id)

(***************************************************************************)
(* The handlers under fair scheduling: a request that can be served is     *)
(* served                                                                  *)
(***************************************************************************)
SpecFair == Spec /\ WF_vars(Next)

\* the article was deleted (by its author or an admin) or unpublished
DeletedOrUnpublished(id) == articles[id].status \in {"DELETED", "DRAFT"}

\* C11: after an article is deleted or unpublished, the store eventually holds
\* no embedding record of its id.
C11_DeletedArticleLosesItsRecord ==
  \A id \in ArticleIds :
    (DeletedOrUnpublished(id) /\ HasRecord(store, id)) ~> ~HasRecord(store, id)

(***************************************************************************)
(* The store as indexing leaves it (checked under Spec)                    *)
(***************************************************************************)
\* the vectors the provider can return for the embedding text of article id
ProviderVectors(id) ==
  {e.embedding : e \in {x \in generateEmbedding(config, TextToEmbed(articles[id])) : ~x.threw}}

\* C12: after a successful indexArticle the record of the article holds, component
\* for component, the vector the provider returned for its embedding text.
C12_StoredVectorIsTheProvidersVector ==
  \A id \in ArticleIds : \A o \in IndexOutcomes(id) :
    o.reply.status = 200 =>
      /\ o.returned \in ProviderVectors(id)
      /\ RecordsOf(o.store, id) # {}
      /\ \A i \in RecordsOf(o.store, id) :
           /\ o.store[i].embedding.dim = o.returned.dim
           /\ \A c \in 0..(o.returned.dim - 1) :
                At(o.store[i].embedding, c) = At(o.returned, c)
           /\ o.store[i].embedding = o.returned

\* an article was indexed and its record holds a vector that is not zero
C12_Witness ==
  /\ resp.handler = "indexArticle" /\ resp.status = 200
  /\ \E i \in RecordsOf(store, resp.articleId) : store[i].embedding.val # <<>>

\* C13: a successful index of an article leaves exactly one record of it, in
\* the place of the one it had, and leaves the other records alone; writing the
\* same record again changes nothing; and indexing the article a second time
\* leaves a store that indexing it once can leave (the same store, with the
\* local provider).  The batch run a second time adds no record and, with
\* the local provider, leaves the store as the first run left it.
C13_UpsertIsIdempotentAndReplacing ==
  /\ \A id \in ArticleIds : \A o1 \in IndexOutcomes(id) :
       o1.reply.status = 200 =>
         /\ Cardinality(RecordsOf(o1.store, id)) = 1
         /\ Len(o1.store) = (IF HasRecord(store, id) THEN Len(store) ELSE Len(store) + 1)
         /\ \A i \in 1..Len(store) :
              IF store[i].article = id THEN o1.store[i] = o1.written
                                       ELSE o1.store[i] = store[i]
         /\ Upsert(o1.store, o1.written) = o1.store
         /\ \A o2 \in IndexOutcomesFrom(o1.store, id) :
              o2.reply.status = 200 =>
                /\ o2.store \in {o.store : o \in IndexOutcomes(id)}
                /\ config.provider = "local" => o2.store = o1.store
  /\ \A b1 \in BatchOutcomes : \A b2 \in BatchOutcomesFrom(b1.store) :
       (b1.reply.status = 200 /\ b1.reply.failed = 0) =>
         /\ Len(b2.store) = Len(b1.store)
         /\ config.provider = "local" => b2.store = b1.store

\* an article indexed before another one was indexed again: its record is
\* still the first of the two
C13_Witness ==
  /\ resp.handler = "indexArticle" /\ resp.status = 200
  /\ Len(store) = 2
  /\ store[1].article = resp.articleId /\ store[2].article # resp.articleId

(***************************************************************************)
(* The handlers under every environment, usable or not                     *)
(***************************************************************************)
\* EMBEDDING_PROVIDER=openai without OPENAI_API_KEY; a provider the service
\* does not know
ConfigNoKey == [provider |-> "openai", apiKey |-> FALSE, envModel |-> "unset"]
ConfigGemini == [provider |-> "gemini", apiKey |-> FALSE, envModel |-> "unset"]
AllConfigs == Configs \cup {ConfigNoKey, ConfigGemini}

InitConfig ==
  /\ config \in AllConfigs
  /\ articles = [id \in ArticleIds |-> NoArticle]
  /\ store = <<>>
  /\ procs = [p \in Procs |-> IdleProc]
  /\ resp = StatusLine(NoResp)

NextConfig ==
  \/ createArticle(DocMongo, "APPROVED")
  \/ \E id \in ArticleIds : deleteArticle(id)
  \/ \E id \in ArticleIds : indexArticle(id)
  \/ indexAllArticles
  \/ \E req \in Queries : searchWithRAG(req)
  \/ \E cfg \in AllConfigs : Restart(cfg)

SpecConfig == InitConfig /\ [][NextConfig]_vars

C15_SearchOnlyReads ==
  [][resp'.handler = "searchWithRAG" =>
       (store' = store /\ articles' = articles /\ config' = config)]_vars

\* a search found sources over a store that holds records
C15_Witness ==
  resp.handler = "searchWithRAG" /\ resp.status = 200 /\ resp.found /\ Len(store) > 0

(***************************************************************************)
(* findSimilarDocumentsHybrid as a function of its arguments: the          *)
(* candidates are the approved articles of an index of RankSize records,   *)
(* built with the local provider; approvedAt orders the approvals in time. *)
(***************************************************************************)
RankSize == 3
MaxTopK == 3

RankDocs == {DocMongo, DocStopwords, DocEmptyBody}

RankQueries == {req \in Queries : ~QueryRejected(req)}

InitRank ==
  /\ config = ConfigLocal
  /\ \E docs \in [1..RankSize -> RankDocs],
        status \in [1..RankSize -> {"APPROVED", "REJECTED"}],
        approvedAt \in Orders(RankSize) :
       articles = [id \in 1..RankSize |->
                     [status |-> status[id], title |-> docs[id].title,
                      excerpt |-> docs[id].excerpt, content |-> docs[id].content,
                      approvedBy |-> TRUE, approvedAt |-> approvedAt[id]]]
  /\ store = [id \in 1..RankSize |->
                EmbeddingRecord(id, TextToEmbed(articles[id]),
                                LocalEmbedding(TextToEmbed(articles[id])))]
  /\ procs = [p \in Procs |-> IdleProc]
  /\ resp = [handler |-> "none", query |-> QueryMissing, topK |-> 0, ranked |-> <<>>]

\* one call findSimilarDocumentsHybrid(query, queryEmbedding, documents, topK)
\* on the candidates of the index
findSimilarDocumentsHybridCall(req, topK) ==
  /\ \E r \in findSimilarDocumentsHybrid(req.text, LocalEmbedding(req.text),
                                         ValidEmbeddings, topK) :
       /\ ~r.threw
       /\ resp' = [handler |-> "findSimilarDocumentsHybrid", query |-> req, topK |-> topK,
                   ranked |-> r.ranked]
  /\ UNCHANGED <<config, articles, store, procs>>

NextRank == \E req \in RankQueries, topK \in 1..MaxTopK : findSimilarDocumentsHybridCall(req, topK)

SpecRank == InitRank /\ [][NextRank]_vars

\* the scored candidates of the call recorded in resp
Scored ==
  [k \in 1..Len(ValidEmbeddings) |->
     ScoreDocument(extractKeywords(resp.query.text), LocalEmbedding(resp.query.text),
                   ValidEmbeddings[k])]

Min(a, b) == IF a < b THEN a ELSE b

\* C16: a call of findSimilarDocumentsHybrid returns min(topK, number of
\* candidates) results, each score at least the next one, and no candidate
\* left out has a score greater than the score of a returned one.
C16_TopKInDescendingOrder ==
  resp.handler = "findSimilarDocumentsHybrid" =>
    LET ranked == resp.ranked
        returned == {ranked[i].id : i \in 1..Len(ranked)}
    IN /\ Len(ranked) = Min(resp.topK, Len(ValidEmbeddings))
       /\ \A i \in 1..(Len(ranked) - 1) :
            /\ ~ranked[i].similarity.nan /\ ~ranked[i + 1].similarity.nan
            /\ ranked[i].similarity.v >= ranked[i + 1].similarity.v
       /\ \A k \in 1..Len(Scored) : \A i \in 1..Len(ranked) :
            Scored[k].id \notin returned =>
              ~(~Scored[k].similarity.nan /\ ~ranked[i].similarity.nan
                  /\ Scored[k].similarity.v > ranked[i].similarity.v)

\* C17: of two results next to each other with the same score, the one
\* approved more recently comes first.
C17_TiesBrokenByRecency ==
  resp.handler = "findSimilarDocumentsHybrid" =>
    \A i \in 1..(Len(resp.ranked) - 1) :
      (~resp.ranked[i].similarity.nan /\ ~resp.ranked[i + 1].similarity.nan
         /\ resp.ranked[i].similarity.v = resp.ranked[i + 1].similarity.v) =>
        articles[resp.ranked[i].id].approvedAt > articles[resp.ranked[i + 1].id].approvedAt

(***************************************************************************)
(* The local embedding and the records of the store (checked under Spec)   *)
(***************************************************************************)
\* the records written with the local provider: their vectors have vectorSize
\* components, the external ones ExternalDim
LocalRecords == {i \in 1..Len(store) : store[i].embedding.dim = vectorSize}

C19_OneLengthPerEmbeddingModel ==
  \A i, j \in 1..Len(store) :
    store[i].embeddingModel = store[j].embeddingModel =>
      store[i].embedding.dim = store[j].embedding.dim

(***************************************************************************)
(* The query scenario: with the local provider, article 1 is approved and  *)
(* titled "MongoDB Connection Refused Error"; other articles come and go.  *)
(***************************************************************************)
RefusedQuery == Query(<<"mongodb", "connection", "error">>)

InitQuery ==
  /\ config = ConfigLocal
  /\ \E doc \in RefusedDocs :
       articles = [id \in ArticleIds |-> IF id = 1 THEN Approved(doc) ELSE NoArticle]
  /\ store = <<>>
  /\ procs = [p \in Procs |-> IdleProc]
  /\ resp = StatusLine(NoResp)

NextQuery ==
  \/ \E doc \in {DocMongo, DocStopwords} : createArticle(doc, "APPROVED")
  \/ \E id \in ArticleIds \ {1} : rejectArticle(id)
  \/ \E id \in ArticleIds : indexArticle(id)
  \/ indexAllArticles
  \/ \E req \in Queries : searchWithRAG(req)

SpecQuery == InitQuery /\ [][NextQuery]_vars

\* the candidates of a search are the record of article 1 and nothing else
OnlyRefusedIndexed ==
  /\ config.provider = "local"
  /\ PopulateMatch(1) /\ articles[1].title = RefusedTitle
  /\ Len(ValidEmbeddings) = 1 /\ ValidEmbeddings[1].id = 1

MaxDocs == 4

Repeat(text, n) == [i \in 1..(n * Len(text)) |-> text[((i - 1) % Len(text)) + 1]]

\* a document with an excerpt
DocWithExcerpt == [title |-> <<"mongodb", "error">>, excerpt |-> <<"database", "error">>,
                   content |-> <<"refused">>]
\* 359 characters; the 300th falls inside a word
DocLong == [title |-> <<"database">>, excerpt |-> <<>>,
            content |-> Repeat(<<"database">>, 40)]
\* 359 characters; the 300th is a space
DocLongSpace == [title |-> <<"error">>, excerpt |-> <<>>,
                 content |-> Repeat(<<"error">>, 60)]

AnswerDocs == {DocWithExcerpt, DocMongo, DocLong, DocLongSpace, DocEmptyBody}

InitAnswer ==
  /\ config = ConfigLocal
  /\ articles = [id \in ArticleIds |-> NoArticle]
  /\ store = <<>>
  /\ procs = [p \in Procs |-> IdleProc]
  /\ \E n \in 0..MaxDocs : \E relevantDocs \in [1..n -> AnswerDocs] :
       resp = [handler |-> "none", docs |-> relevantDocs, answer |-> NoAnswer]

\* the call generateRuleBasedAnswer(query, relevantDocs)
generateRuleBasedAnswerCall ==
  /\ resp.handler = "none"
  /\ resp' = [handler |-> "generateRuleBasedAnswer", docs |-> resp.docs,
              answer |-> generateRuleBasedAnswer(resp.docs)]
  /\ UNCHANGED <<config, articles, store, procs>>

NextAnswer == generateRuleBasedAnswerCall

SpecAnswer == InitAnswer /\ [][NextAnswer]_vars

InitRerank ==
  /\ config = ConfigLocal
  /\ \E docs \in [1..RankSize -> RankDocs],
        status \in [1..RankSize -> {"APPROVED", "REJECTED"}] :
       articles = [id \in 1..RankSize |->
                     [status |-> status[id], title |-> docs[id].title,
                      excerpt |-> docs[id].excerpt, content |-> docs[id].content,
                      approvedBy |-> TRUE]]
  /\ store = [id \in 1..RankSize |->
                EmbeddingRecord(id, TextToEmbed(articles[id]),
                                LocalEmbedding(TextToEmbed(articles[id])))]
  /\ procs = [p \in Procs |-> IdleProc]
  /\ resp = [handler |-> "none", query |-> QueryMissing, topK |-> 0, ranked |-> <<>>,
             again |-> <<>>, reranked |-> <<>>]

\* the elements of a ranking as documents: {...doc} keeps the fields of the
\* document it was computed from
AsDocuments(ranked) ==
  [i \in 1..Len(ranked) |->
     ValidEmbeddings[CHOOSE k \in 1..Len(ValidEmbeddings) :
                       ValidEmbeddings[k].id = ranked[i].id]]

\* findSimilarDocumentsHybrid(query, queryEmbedding, documents, topK), the
\* same call once more, and the call on the documents of the first result
findSimilarDocumentsHybridTwice(req, topK) ==
  /\ resp.handler = "none"
  /\ \E r1, r2 \in findSimilarDocumentsHybrid(req.text, LocalEmbedding(req.text),
                                              ValidEmbeddings, topK) :
       /\ ~r1.threw /\ ~r2.threw
       /\ \E r3 \in findSimilarDocumentsHybrid(req.text, LocalEmbedding(req.text),
                                               AsDocuments(r1.ranked), topK) :
            /\ ~r3.threw
            /\ resp' = [handler |-> "findSimilarDocumentsHybrid", query |-> req,
                        topK |-> topK, ranked |-> r1.ranked, again |-> r2.ranked,
                        reranked |-> r3.ranked]
  /\ UNCHANGED <<config, articles, store, procs>>

RerankQueries == RankQueries \cup {ContentQuery}

NextRerank ==
  \E req \in RerankQueries, topK \in 1..MaxTopK : findSimilarDocumentsHybridTwice(req, topK)

SpecRerank == InitRerank /\ [][NextRerank]_vars

C23_HybridScoreFormula ==
  resp.handler = "findSimilarDocumentsHybrid" =>
    LET keywords == extractKeywords(resp.query.text)
        n == Len(keywords)
    IN \A i \in 1..Len(resp.ranked) :
         LET r == resp.ranked[i]
             inTitle == {k \in 1..n : Includes(r.title, keywords[k])}
             inContent == {k \in 1..n : Includes(r.content \o <<WS>> \o r.excerpt, keywords[k])}
             sum == 500 * Cardinality(inTitle) + 100 * Cardinality(inContent)
             exact == 600 * r.semanticScore.v + 400 * r.keywordScore.v
         IN /\ ~r.keywordScore.nan
            /\ n = 0 => r.keywordScore.v = 0
            /\ n > 0 => (r.keywordScore.v * n <= sum /\ sum < (r.keywordScore.v + 1) * n)
            /\ r.similarity.nan = r.semanticScore.nan
            /\ ~r.similarity.nan =>
                 (Scale * r.similarity.v <= exact /\ exact < Scale * (r.similarity.v + 2))

\* a candidate scored for three keywords, one found in its title and two in
\* its content, with a semantic score above 0
C23_Witness ==
  /\ resp.handler = "findSimilarDocumentsHybrid"
  /\ resp.query = ContentQuery
  /\ Len(resp.ranked) = RankSize
  /\ \E i \in 1..Len(resp.ranked) :
       /\ resp.ranked[i].title = DocMongo.title
       /\ resp.ranked[i].keywordScore.v = 233
       /\ resp.ranked[i].semanticScore.v > 0
       /\ resp.ranked[i].similarity.v > 93

(***************************************************************************)
(* The floor and the provider of the ranked embeddings (under Spec)        *)
(***************************************************************************)
\* the vector lengths of the records a ranking was computed from: the local
\* provider writes vectors of vectorSize components, the external model
\* vectors of ExternalDim components
RankedDims(ranked) ==
  {store[k].embedding.dim :
     k \in {k \in 1..Len(store) : \E i \in 1..Len(ranked) : store[k].article = ranked[i].id}}

\* C24: whenever a search compares the top result of a ranking with the
\* floor, the floor is 0.05 exactly when the ranked embeddings were produced
\* by the local provider and 0.5 exactly when they were produced by the
\* external model.
C24_FloorFollowsTheProviderOfTheRankedEmbeddings ==
  \A req \in Queries : \A r \in SearchOutcomes(req) :
    r.ranked # <<>> =>
      /\ r.floor \in {50, 500}
      /\ r.floor = 50 <=> RankedDims(r.ranked) = {vectorSize}
      /\ r.floor = 500 <=> RankedDims(r.ranked) = {ExternalDim}

\* a search under the external provider ranks an external record with the
\* floor 0.5 while the store also holds a local record of an article that is
\* no longer approved
C24_Witness ==
  /\ config = ConfigOpenAI
  /\ \E k \in 1..Len(store) : store[k].embedding.dim = vectorSize
  /\ \E req \in Queries : \E r \in SearchOutcomes(req) :
       r.ranked # <<>> /\ r.floor = 500 /\ RankedDims(r.ranked) = {ExternalDim}

(***************************************************************************)
(* indexArticle and the status of the article (under Spec)                 *)
(***************************************************************************)
\* C25: indexArticle answers 404 for a missing article, 400 for an article
\* that is not APPROVED and 500 for a failed embedding call, and leaves the
\* embedding collection as it was in all three cases; it writes a record,
\* that of the article requested, only with the answer 200 for an existing
\* APPROVED article.
C25_IndexArticleOnlyApproved ==
  [][resp'.handler = "indexArticle" =>
       LET id == resp'.articleId
       IN /\ resp'.status \in {200, 400, 404, 500}
          /\ ~Exists(id) => resp'.status = 404
          /\ (Exists(id) /\ articles[id].status # "APPROVED") => resp'.status = 400
          /\ resp'.status # 200 => store' = store
          /\ resp'.status = 200 =>
               /\ Exists(id) /\ articles[id].status = "APPROVED"
               /\ HasRecord(store', id)
               /\ Len(store') = (IF HasRecord(store, id) THEN Len(store) ELSE Len(store) + 1)
               /\ \A k \in 1..Len(store) : store[k].article # id => store'[k] = store[k]]_vars

\* a rejected article was refused with 400 and has no record, next to the
\* record of an article indexed before
C25_Witness ==
  /\ resp.handler = "indexArticle"
  /\ resp.status = 400
  /\ articles[resp.articleId].status = "REJECTED"
  /\ ~HasRecord(store, resp.articleId)
  /\ store # <<>>

(***************************************************************************)
(* Indexing articles of any length: two approved articles, short or longer *)
(* than the input limit of the external API                                *)
(***************************************************************************)
LengthDocs == {DocMongo, DocOverLimit}

InitLength ==
  /\ config \in Configs
  /\ \E docs \in [ArticleIds -> LengthDocs] :
       articles = [id \in ArticleIds |-> Approved(docs[id])]
  /\ store = <<>>
  /\ procs = [p \in Procs |-> IdleProc]
  /\ resp = StatusLine(NoResp)

NextLength ==
  \/ \E id \in ArticleIds : rejectArticle(id)
  \/ \E id \in ArticleIds : approveArticle(id)
  \/ \E id \in ArticleIds : indexArticle(id)
  \/ \E cfg \in Configs : Restart(cfg)

SpecLength == InitLength /\ [][NextLength]_vars

\* C26: the textContent of every record indexArticle writes is the text its
\* vector was computed from, character for character, and that text is
\* title, excerpt and content joined by blank lines (no article has PDF
\* text), whatever the provider and the length of the text.
C26_TextContentIsTheEmbeddedText ==
  \A id \in ArticleIds : \A o \in IndexOutcomes(id) :
    o.reply.status = 200 =>
      /\ o.written.textContent =
           articles[id].title \o <<NL>> \o articles[id].excerpt \o <<NL>> \o articles[id].content
      /\ Spaced(o.written.textContent) = Spaced(o.embedded)

(***************************************************************************)
(* generateLocalEmbedding on its own: every text of up to MaxWords words   *)
(***************************************************************************)
MaxWords == 3

\* "xfjfxtf" is a word whose hash is -2^31; the hash of "connection" is
\* negative
HashWords == {"mongodb", "connection", "xfjfxtf", "the", "error"}

InitHash ==
  /\ config = ConfigLocal
  /\ articles = [id \in ArticleIds |-> NoArticle]
  /\ store = <<>>
  /\ procs = [p \in Procs |-> IdleProc]
  /\ \E n \in 1..MaxWords : \E text \in [1..n -> HashWords] :
       resp = [handler |-> "none", text |-> text, features |-> <<>>,
               vector |-> ZeroVector(0)]

\* the call generateLocalEmbedding(text), with the hashes and the positions
\* of every feature
generateLocalEmbeddingCall ==
  /\ resp.handler = "none"
  /\ resp' = [handler |-> "generateLocalEmbedding", text |-> resp.text,
              features |-> [i \in 1..Len(LocalFeatures(resp.text)) |->
                              [hash |-> FeatureHashes(LocalFeatures(resp.text)[i]),
                               idx |-> HashPositions(LocalFeatures(resp.text)[i])]],
              vector |-> generateLocalEmbedding(resp.text)]
  /\ UNCHANGED <<config, articles, store, procs>>

NextHash == generateLocalEmbeddingCall

SpecHash == InitHash /\ [][NextHash]_vars

\* C27: each of the three positions of every feature is an integer of
\* 0..255 and is the remainder of the absolute value of its hash, also for a
\* negative hash and for the hash -2^31, and the vector returned has 256
\* components: every component written lies in 0..255.
C27_HashPositionsInRange ==
  resp.handler = "generateLocalEmbedding" =>
    /\ \A i \in 1..Len(resp.features) : \A k \in 1..3 :
         LET h == resp.features[i].hash[k]
             idx == resp.features[i].idx[k]
         IN /\ idx \in 0..(vectorSize - 1)
            /\ h >= 0 => (h - idx) % vectorSize = 0
            /\ h < 0 => (h + idx) % vectorSize = 0
            /\ idx \in DOMAIN resp.vector.val
    /\ resp.vector.dim = vectorSize
    /\ DOMAIN resp.vector.val \subseteq 0..(vectorSize - 1)

\* a text with a feature whose hash is -2^31 and a feature whose hash is
\* negative
C27_Witness ==
  /\ resp.handler = "generateLocalEmbedding"
  /\ \E i \in 1..Len(resp.features) :
       resp.features[i].hash[1] = 0 - 2147483647 - 1 /\ resp.features[i].idx[1] = 0
  /\ \E i \in 1..Len(resp.features) :
       resp.features[i].hash[1] = 0 - 775651618 /\ resp.features[i].idx[1] = 34

(***************************************************************************)
(* Termination of indexAllArticles.  Every await of the handlers returns   *)
(* or throws: the local provider computes synchronously, and a call of the *)
(* external API that gets no answer is ended by the client library's       *)
(* request timeout and surfaces as a thrown error.                         *)
(***************************************************************************)
NextBatch ==
  \/ \E p \in Procs : indexAllArticlesCall(p)
  \/ \E p \in Procs : generateEmbeddingReturns(p)
  \/ \E p \in Procs : findOneAndUpdateMatch(p)
  \/ \E p \in Procs : findOneAndUpdateInsert(p)
  \/ \E p \in Procs : findOneAndUpdateDuplicateKey(p)
  \/ \E p \in Procs : findOneAndUpdateRetry(p)

\* batches only, each await returning or throwing
SpecBatch ==
  /\ InitConc /\ [][NextBatch]_vars
  /\ \A p \in Procs :
       /\ WF_vars(generateEmbeddingReturns(p))
       /\ WF_vars(findOneAndUpdateMatch(p))
       /\ WF_vars(findOneAndUpdateInsert(p))
       /\ WF_vars(findOneAndUpdateDuplicateKey(p) \/ findOneAndUpdateRetry(p))

\* request p is inside the loop of indexAllArticles
InBatch(proc) == proc.op = "indexAllArticles" /\ proc.pc # "idle"

\* C28: a batch starts with the first article of its snapshot of the
\* approved articles; every iteration ends by counting its article as
\* indexed or as failed, a thrown embedding call (a timeout included) as
\* failed, and is followed by the next article of the snapshot, or by the
\* response when there is none left; and every batch eventually responds.
C28_BatchAttemptsEachArticleOnceAndResponds ==
  /\ [][\A p \in Procs :
          /\ (~InBatch(procs[p]) /\ InBatch(procs'[p])) =>
               /\ procs'[p].article.id = Head(ApprovedArticles).id
               /\ procs'[p].queue = Tail(ApprovedArticles)
               /\ procs'[p].indexed = 0 /\ procs'[p].failed = 0
          /\ (InBatch(procs[p]) /\ procs'[p] # procs[p]) =>
               \/ /\ InBatch(procs'[p])
                  /\ procs'[p].article = procs[p].article
                  /\ procs'[p].queue = procs[p].queue
                  /\ procs'[p].indexed = procs[p].indexed
                  /\ procs'[p].failed = procs[p].failed
               \/ /\ procs'[p].indexed + procs'[p].failed
                       = procs[p].indexed + procs[p].failed + 1
                  /\ procs[p].pc = "embed" => procs'[p].failed = procs[p].failed + 1
                  /\ IF procs[p].queue # <<>>
                     THEN /\ InBatch(procs'[p])
                          /\ procs'[p].pc = "embed"
                          /\ procs'[p].article = Head(procs[p].queue)
                          /\ procs'[p].queue = Tail(procs[p].queue)
                     ELSE /\ procs'[p].pc = "idle"
                          /\ procs'[p].status = 200
                          /\ procs'[p].indexed + procs'[p].failed = Len(ApprovedArticles)]_vars
  /\ \A p \in Procs : InBatch(procs[p]) ~> (procs[p].pc = "idle")

\* a batch has responded after the embedding call of its first article
\* failed and its second article was indexed
C28_Witness ==
  \E p \in Procs :
    /\ procs[p].op = "indexAllArticles" /\ procs[p].pc = "idle" /\ procs[p].status = 200
    /\ procs[p].failed = 1 /\ procs[p].indexed = 1
    /\ procs[p].errors[1].articleId = 1
    /\ HasRecord(store, 2)

(***************************************************************************)
(* getIndexStatus                                                          *)
(***************************************************************************)
\* Article.countDocuments({status: 'APPROVED'})
TotalApproved == Cardinality({id \in ArticleIds : articles[id].status = "APPROVED"})

\* ArticleEmbedding.countDocuments()
TotalIndexed == Len(store)

getIndexStatus ==
  /\ resp' = [handler |-> "getIndexStatus", status |-> 200,
              configured |-> isConfigured(config),
              totalApproved |-> TotalApproved, totalIndexed |-> TotalIndexed,
              needsIndexing |-> TotalApproved - TotalIndexed]
  /\ UNCHANGED <<config, articles, store, procs>>

InitStatus ==
  /\ config = ConfigLocal
  /\ articles = [id \in ArticleIds |-> NoArticle]
  /\ store = <<>>
  /\ procs = [p \in Procs |-> IdleProc]
  /\ resp = StatusLine(NoResp)

NextStatus ==
  \/ \E status \in CreateStatuses : createArticle(DocMongo, status)
  \/ \E id \in ArticleIds : approveArticle(id)
  \/ \E id \in ArticleIds : rejectArticle(id)
  \/ \E id \in ArticleIds : unpublishArticle(id)
  \/ \E id \in ArticleIds : deleteArticle(id)
  \/ \E id \in ArticleIds : adminDeleteArticle(id)
  \/ \E id \in ArticleIds : indexArticle(id)
  \/ indexAllArticles
  \/ getIndexStatus

SpecStatus == InitStatus /\ [][NextStatus]_vars

\* C29: needsIndexing of getIndexStatus is the number of APPROVED articles
\* without an embedding record, and is never negative.
C29_NeedsIndexingCountsUnindexedApproved ==
  resp.handler = "getIndexStatus" =>
    /\ resp.needsIndexing >= 0
    /\ resp.needsIndexing =
         Cardinality({id \in ArticleIds :
                        articles[id].status = "APPROVED" /\ ~HasRecord(store, id)})

(***************************************************************************)
(* The status of an article and its approval: createArticle,               *)
(* approveArticle, rejectArticle and unpublishArticle alone.  The field    *)
(* approvedBy stands for approvedBy and approvedAt, which the handlers     *)
(* write together.                                                         *)
(***************************************************************************)
NextArticles ==
  \/ \E doc \in DocInputs, status \in CreateStatuses : createArticle(doc, status)
  \/ \E id \in ArticleIds : approveArticle(id)
  \/ \E id \in ArticleIds : rejectArticle(id)
  \/ \E id \in ArticleIds : unpublishArticle(id)

SpecArticles == InitStatus /\ [][NextArticles]_vars

\* C30: an article is APPROVED exactly when its approval is recorded: an
\* APPROVED article has approvedBy and approvedAt set, and an article of
\* any other status has them null.
C30_ApprovedOnlyThroughApproveArticle ==
  \A id \in ArticleIds :
    Exists(id) => (articles[id].status = "APPROVED" <=> articles[id].approvedBy)
====
